---- MODULE Spec2Model ----
(***************************************************************************)
(* El Pais opinion scraper.                                                *)
(*                                                                         *)
(* Spec / FairSpec : browserstack_runner.py, main() fanning out one        *)
(*                   thread per capability running                         *)
(*                   run_pipeline_on_browserstack, and the consolidated    *)
(*                   report built from the shared results dict.            *)
(* ScrapeSpec      : scraper.py run_scraper and src/scraper.py             *)
(*                   ElPaisScraper.scrape, the per-article loop.           *)
(* DiscoverSpec    : article-URL discovery on the listing page.            *)
(* TranslateSpec   : translator.py translate_es_to_en and                  *)
(*                   src/translator.py ArticleTranslator.translate.        *)
(* ExtractSpec     : title, body and image-URL extraction on one page.     *)
(* ConsentSpec     : consent-overlay dismissal.                            *)
(* FetchSpec       : the download of one article's image.                  *)
(* AnalyzeSpec     : analyzer.py and src/analyzer.py, word frequencies.    *)
(* PipeSpec        : one session from scrape to word-frequency report.     *)
(***************************************************************************)
EXTENDS Naturals, Integers, Sequences, FiniteSets, TLC

VARIABLES
    mpc,        \* main(): position in browserstack_runner.main
    mi,         \* main(): index of the thread being started / joined
    tpc,        \* per thread: position in run_pipeline_on_browserstack
    driver,     \* per thread: local `driver` ("none" or "open")
    status,     \* per thread: local `status`
    local,      \* per thread: locals `articles` / `translated_headers`
    raised,     \* threads whose try block raised an Exception
    lock,       \* threading.Lock: 0 when free, else the holder
    results,    \* the shared results dict (thread_idx -> entry)
    writes,     \* per thread: number of assignments results[thread_idx] = ...
    timedOut,   \* threads whose t.join(timeout=600) returned on the timeout
    listing,    \* what the consolidated per-session listing printed
    merged,     \* all_translated_headers
    analysed,   \* the list handed to print_analysis
    summary,    \* what the session status summary table printed
    emitted,    \* report sections printed so far, in order
    remote,     \* per thread: calls the finally block made on the driver
    exitStatus, \* process exit status (-1 while the process runs)
    sc_pc,      \* run_scraper / scrape: position
    sc_impl,    \* which implementation runs: "top" or "class"
    sc_urls,    \* article_urls returned by URL discovery
    sc_out,     \* what happens when article k is navigated to and extracted
    sc_idx,     \* loop index into sc_urls
    sc_articles,\* the `articles` list being built
    sc_tried,   \* URLs for which driver.get(url) was attempted, in order
    d_pc,       \* URL discovery: position
    d_impl,     \* URL discovery: "top" (_extract_article_urls) or "class"
    d_page,     \* URL discovery: the <a> elements of the listing page
    d_sel,      \* URL discovery: index of the next card selector
    d_hrefs,    \* URL discovery: the list `hrefs` / `urls` being built
    d_scans,    \* URL discovery: find_elements calls made so far, in order
    t_pc,       \* translator: position
    t_impl,     \* translator: "top" (translate_es_to_en) or "class"
    t_key,      \* translator: GOOGLE_API_KEY is set
    t_text,     \* translator: the input text
    t_gresp,    \* translator: what the Google call does
    t_resp,     \* translator: what the k-th MyMemory call does
    t_calls,    \* translator: provider calls made so far, in order
    t_ret,      \* translator: the value returned to the caller
    x_pc,       \* field extraction: which extractor runs, or "returned"/"raised"
    x_impl,     \* field extraction: "top" or "class"
    x_page,     \* field extraction: what the loaded article page holds
    x_tried,    \* field extraction: attempts consulted, in order
    x_ret,      \* field extraction: the value returned
    c_pc,       \* consent dismissal: position
    c_impl,     \* consent dismissal: "top" or "class"
    c_out,      \* consent dismissal: what the wait/click on locator k does
    c_idx,      \* consent dismissal: index of the next locator
    c_log,      \* consent dismissal: locators waited for and clicks made
    f_pc,       \* image download: position
    f_in,       \* image download: implementation, image_url, what the calls do
    f_calls,    \* image download: requests.get calls made
    f_ret,      \* image download: image_path ("None" or "path")
    f_record,   \* image download: the article records appended
    a_pc,       \* word analysis: position
    a_in,       \* word analysis: implementation, headers, threshold
    a_run,      \* word analysis: index of the call being made
    a_counter,  \* word analysis: the Counter of the call
    a_reports,  \* word analysis: the dict returned by each call
    a_tables,   \* word analysis: the rows printed for each call
    p_pc,       \* session pipeline: position
    p_in,       \* session pipeline: which pipeline, discovery, outcomes
    p_articles, \* session pipeline: `articles`
    p_headers,  \* session pipeline: `translated_headers`
    p_report    \* session pipeline: word-frequency reports printed

ovars == <<mpc, mi, tpc, driver, status, local, raised, lock, results, writes, timedOut, listing, merged, analysed, summary, emitted,
           remote, exitStatus>>
svars == <<sc_pc, sc_impl, sc_urls, sc_out, sc_idx, sc_articles, sc_tried>>
dvars == <<d_pc, d_impl, d_page, d_sel, d_hrefs, d_scans>>
tvars == <<t_pc, t_impl, t_key, t_text, t_gresp, t_resp, t_calls, t_ret>>
xvars == <<x_pc, x_impl, x_page, x_tried, x_ret>>
cvars == <<c_pc, c_impl, c_out, c_idx, c_log>>
ivars == <<f_pc, f_in, f_calls, f_ret, f_record>>
avars == <<a_pc, a_in, a_run, a_counter, a_reports, a_tables>>
pvars == <<p_pc, p_in, p_articles, p_headers, p_report>>
nvars == <<ivars, avars, pvars>>
fvars == <<dvars, tvars, xvars, cvars, nvars>>
vars  == <<ovars, svars, fvars>>

(***************************************************************************)
(* Bounds                                                                  *)
(***************************************************************************)
NumSessions == 2      \* capabilities run (CAPABILITIES has 5)
MaxUrls == 1          \* URLs a session's discovery returns (MAX_ARTICLES is 5)
MaxScrapeUrls == 3    \* URLs discovery returns in ScrapeSpec
MaxArticles == 2      \* MAX_ARTICLES / config.NUM_ARTICLES (5 in the code)
MaxLinks == 3         \* <a> elements of the listing page

Sessions == 1..NumSessions

(***************************************************************************)
(* Article records and titles                                              *)
(***************************************************************************)
\* Title extracted from the page at url u (Spanish).
Title(u) == <<"es", u>>

\* The dict appended by run_scraper for a scraped url.
Article(u) == [url |-> u, title |-> Title(u)]

\* What one pass of the per-article try block can do.
\*   ok    : title/content/image extracted, record appended
\*   wde   : a selenium WebDriverException is raised
\*   other : an exception that is not a WebDriverException is raised
ArticleOutcomes == {"ok", "wde", "other"}

RECURSIVE SeqsUpTo(_, _)
SeqsUpTo(S, n) ==
    IF n = 0 THEN {<<>>}
    ELSE LET shorter == SeqsUpTo(S, n - 1)
         IN  shorter \cup {Append(s, x) : s \in {t \in shorter : Len(t) = n - 1}, x \in S}

Range(s) == {s[k] : k \in 1..Len(s)}

\* Duplicate-free url lists of at most n urls out of 1..n.
UrlLists(n) == {s \in SeqsUpTo(1..n, n) : Cardinality(Range(s)) = Len(s)}

(***************************************************************************)
(* run_scraper / ElPaisScraper.scrape : the per-article loop               *)
(***************************************************************************)
\* ScrapeStep with articles.insert(0, ...) for articles.append(...).
ScrapeStepPrepend(acc, u, o) ==
    IF o = "ok" THEN [raised |-> FALSE, articles |-> <<Article(u)>> \o acc]
    ELSE IF o = "wde" THEN [raised |-> FALSE, articles |-> acc]
    ELSE [raised |-> TRUE, articles |-> acc]

\* One pass of the loop body for url u with outcome o, starting from the
\* list acc.  The try block appends the record; `except WebDriverException`
\* drops the article and continues; any other exception leaves the loop.
ScrapeStep(acc, u, o) ==
    IF o = "ok" THEN [raised |-> FALSE, articles |-> Append(acc, Article(u))]
    ELSE IF o = "wde" THEN [raised |-> FALSE, articles |-> acc]
    ELSE [raised |-> TRUE, articles |-> acc]

RECURSIVE ScrapeFrom(_, _, _, _)
ScrapeFrom(urls, out, k, acc) ==
    IF k > Len(urls) THEN [raised |-> FALSE, articles |-> acc]
    ELSE LET r == ScrapeStep(acc, urls[k], out[k])
         IN  IF r.raised THEN r ELSE ScrapeFrom(urls, out, k + 1, r.articles)

\* run_scraper(driver) once the listing page is loaded: the value of
\* result["articles"], or raised = TRUE when an exception leaves run_scraper.
RunScraper(urls, out) ==
    IF urls = <<>> THEN [raised |-> FALSE, articles |-> <<>>]
    ELSE ScrapeFrom(urls, out, 1, <<>>)

ScrapeInputs ==
    /\ sc_pc = "nav"
    /\ sc_impl \in {"top", "class"}
    /\ sc_urls \in UrlLists(MaxScrapeUrls)
    /\ sc_out \in [1..Len(sc_urls) -> ArticleOutcomes]
    /\ sc_idx = 1
    /\ sc_articles = <<>>
    /\ sc_tried = <<>>

\* driver.get(OPINION_URL), consent dismissal, URL discovery.  A failure of
\* the listing-page navigation is not caught inside run_scraper / scrape.
SNavigate ==
    /\ sc_pc = "nav"
    /\ \E ok \in BOOLEAN : sc_pc' = IF ok THEN "collected" ELSE "nav_raised"
    /\ UNCHANGED <<sc_impl, sc_urls, sc_out, sc_idx, sc_articles, sc_tried>>
    /\ UNCHANGED <<ovars, fvars>>

\* `if not article_urls: return {"articles": []}` (top-level run_scraper);
\* the class-based scrape just runs its loop over the empty list.
SCollected ==
    /\ sc_pc = "collected"
    /\ sc_pc' = IF sc_impl = "top" /\ sc_urls = <<>> THEN "returned" ELSE "loop"
    /\ UNCHANGED <<sc_impl, sc_urls, sc_out, sc_idx, sc_articles, sc_tried>>
    /\ UNCHANGED <<ovars, fvars>>

\* One iteration of `for idx, url in enumerate(article_urls, start=1)`.
SArticle ==
    /\ sc_pc = "loop"
    /\ sc_idx <= Len(sc_urls)
    /\ LET r == ScrapeStep(sc_articles, sc_urls[sc_idx], sc_out[sc_idx])
       IN  /\ sc_articles' = r.articles
           /\ sc_tried' = Append(sc_tried, sc_urls[sc_idx])
           /\ sc_idx' = sc_idx + 1
           /\ sc_pc' = IF r.raised THEN "art_raised" ELSE "loop"
    /\ UNCHANGED <<sc_impl, sc_urls, sc_out>>
    /\ UNCHANGED <<ovars, fvars>>

\* The loop is exhausted: return {"articles": articles}.
SReturn ==
    /\ sc_pc = "loop"
    /\ sc_idx > Len(sc_urls)
    /\ sc_pc' = "returned"
    /\ UNCHANGED <<sc_impl, sc_urls, sc_out, sc_idx, sc_articles, sc_tried>>
    /\ UNCHANGED <<ovars, fvars>>

(***************************************************************************)
(* browserstack_runner.py : the per-thread pipeline                        *)
(***************************************************************************)
\* What translate_es_to_en(title) can do for one article.
\*   accepted : the provider's translation is returned
\*   original : the original title is returned
\*   raise    : an exception leaves translate_es_to_en
TranslateOutcomes == {"accepted", "original", "raise"}

TitleEn(title, o) == IF o = "accepted" THEN <<"en", title[2]>> ELSE title

\* TranslateFrom with the header appended only when the title was translated.
RECURSIVE TranslateFromSkipOriginal(_, _, _, _, _)
TranslateFromSkipOriginal(arts, tout, k, accA, accH) ==
    IF k > Len(arts) THEN [raised |-> FALSE, articles |-> accA, headers |-> accH]
    ELSE IF tout[k] = "raise" THEN [raised |-> TRUE, articles |-> accA, headers |-> accH]
    ELSE LET en == TitleEn(arts[k].title, tout[k])
         IN  TranslateFromSkipOriginal(arts, tout, k + 1,
                 Append(accA, [url |-> arts[k].url, title |-> arts[k].title,
                               title_en |-> en]),
                 IF tout[k] = "accepted" THEN Append(accH, en) ELSE accH)

\* The translate loop: art["title_en"] = en_title; headers.append(en_title).
RECURSIVE TranslateFrom(_, _, _, _, _)
TranslateFrom(arts, tout, k, accA, accH) ==
    IF k > Len(arts) THEN [raised |-> FALSE, articles |-> accA, headers |-> accH]
    ELSE IF tout[k] = "raise" THEN [raised |-> TRUE, articles |-> accA, headers |-> accH]
    ELSE LET en == TitleEn(arts[k].title, tout[k])
         IN  TranslateFrom(arts, tout, k + 1,
                 Append(accA, [url |-> arts[k].url, title |-> arts[k].title,
                               title_en |-> en]),
                 Append(accH, en))

TranslateAll(arts, tout) == TranslateFrom(arts, tout, 1, <<>>, <<>>)

\* The entry stored by the try block.
PassedEntry(i) ==
    [status |-> "passed", articles |-> local[i].articles,
     headers |-> local[i].headers]

\* The entry stored by the except block.
FailedEntry(i) == [status |-> "failed", articles |-> <<>>, headers |-> <<>>]

\* results[thread_idx] = e
Put(res, i, e) ==
    [k \in (DOMAIN res) \cup {i} |-> IF k = i THEN e ELSE res[k]]

\* Url lists discovery can hand to a session: urls are numbered in
\* discovery order.
DiscoveredLists == {[k \in 1..n |-> k] : n \in 0..MaxUrls}

\* Daemon threads run only while the interpreter does.
Alive(i) == mpc # "exited" /\ tpc[i] \notin {"pending", "done"}

\* CreateDriver with webdriver.Remote(...) called before the try block: its
\* exception ends the thread and no entry is stored.
CreateDriverUncaught(i) ==
    /\ Alive(i) /\ tpc[i] = "create"
    /\ \E ok \in BOOLEAN :
         IF ok
         THEN /\ driver' = [driver EXCEPT ![i] = "open"]
              /\ tpc' = [tpc EXCEPT ![i] = "run"]
              /\ UNCHANGED raised
         ELSE /\ raised' = raised \cup {i}
              /\ tpc' = [tpc EXCEPT ![i] = "done"]
              /\ UNCHANGED driver
    /\ UNCHANGED <<mpc, mi, status, local, lock, results, writes,
                   timedOut, listing, merged, analysed, summary, emitted,
                   remote, exitStatus>>
    /\ UNCHANGED <<svars, fvars>>

\* driver = webdriver.Remote(...)
CreateDriver(i) ==
    /\ Alive(i) /\ tpc[i] = "create"
    /\ \E ok \in BOOLEAN :
         IF ok
         THEN /\ driver' = [driver EXCEPT ![i] = "open"]
              /\ tpc' = [tpc EXCEPT ![i] = "run"]
              /\ UNCHANGED raised
         ELSE /\ raised' = raised \cup {i}
              /\ tpc' = [tpc EXCEPT ![i] = "except"]
              /\ UNCHANGED driver
    /\ UNCHANGED <<mpc, mi, status, local, lock, results, writes,
                   timedOut, listing, merged, analysed, summary, emitted,
                   remote, exitStatus>>
    /\ UNCHANGED <<svars, fvars>>

\* driver.implicitly_wait, run_scraper, the translate loop, find_repeated_words
\* and, when none of them raised, entry into `with lock:` of the try block.
\* The work before the lock touches only the thread's own driver and locals,
\* so it is taken together with the acquisition that follows it.
RunPipeline(i) ==
    /\ Alive(i) /\ tpc[i] = "run"
    /\ \E navOk \in BOOLEAN, urls \in DiscoveredLists :
       \E out \in [1..Len(urls) -> ArticleOutcomes] :
       \E tout \in [1..Len(RunScraper(urls, out).articles) -> TranslateOutcomes] :
         LET sr == RunScraper(urls, out)
             tr == TranslateAll(sr.articles, tout)
         IN  IF navOk /\ ~sr.raised /\ ~tr.raised
             THEN /\ lock = 0
                  /\ lock' = i
                  /\ local' = [local EXCEPT ![i] =
                                 [articles |-> tr.articles, headers |-> tr.headers]]
                  /\ tpc' = [tpc EXCEPT ![i] = "storing"]
                  /\ UNCHANGED raised
             ELSE /\ raised' = raised \cup {i}
                  /\ tpc' = [tpc EXCEPT ![i] = "except"]
                  /\ UNCHANGED <<local, lock>>
    /\ UNCHANGED <<mpc, mi, driver, status, results, writes,
                   timedOut, listing, merged, analysed, summary, emitted,
                   remote, exitStatus>>
    /\ UNCHANGED <<svars, fvars>>

\* `with lock:` entered in the except block.
ExceptAcquire(i) ==
    /\ Alive(i) /\ tpc[i] = "except"
    /\ lock = 0
    /\ lock' = i
    /\ tpc' = [tpc EXCEPT ![i] = "exc_storing"]
    /\ UNCHANGED <<mpc, mi, driver, status, local, raised, results, writes, timedOut, listing, merged, analysed, summary,
                   emitted, remote, exitStatus>>
    /\ UNCHANGED <<svars, fvars>>

\* StorePassed with a statement after the store that raises inside the try
\* block: control reaches the except block after the entry was written.
StorePassedThenRaise(i) ==
    /\ Alive(i) /\ tpc[i] = "storing"
    /\ lock = i
    /\ results' = Put(results, i, PassedEntry(i))
    /\ writes' = [writes EXCEPT ![i] = @ + 1]
    /\ lock' = 0
    /\ status' = [status EXCEPT ![i] = "passed"]
    /\ raised' = raised \cup {i}
    /\ tpc' = [tpc EXCEPT ![i] = "except"]
    /\ UNCHANGED <<mpc, mi, driver, local, timedOut, listing, merged,
                   analysed, summary, emitted, remote, exitStatus>>
    /\ UNCHANGED <<svars, fvars>>

\* try block: results[thread_idx] = {... "status": "passed"}, the lock is
\* released, status = "passed".
StorePassed(i) ==
    /\ Alive(i) /\ tpc[i] = "storing"
    /\ lock = i
    /\ results' = Put(results, i, PassedEntry(i))
    /\ writes' = [writes EXCEPT ![i] = @ + 1]
    /\ lock' = 0
    /\ status' = [status EXCEPT ![i] = "passed"]
    /\ tpc' = [tpc EXCEPT ![i] = "finally"]
    /\ UNCHANGED <<mpc, mi, driver, local, raised, timedOut, listing, merged,
                   analysed, summary, emitted, remote, exitStatus>>
    /\ UNCHANGED <<svars, fvars>>

\* except block: results[thread_idx] = {... "status": "failed"}, the lock is
\* released.
StoreFailed(i) ==
    /\ Alive(i) /\ tpc[i] = "exc_storing"
    /\ lock = i
    /\ results' = Put(results, i, FailedEntry(i))
    /\ writes' = [writes EXCEPT ![i] = @ + 1]
    /\ lock' = 0
    /\ tpc' = [tpc EXCEPT ![i] = "finally"]
    /\ UNCHANGED <<mpc, mi, driver, status, local, raised, timedOut, listing,
                   merged, analysed, summary, emitted, remote, exitStatus>>
    /\ UNCHANGED <<svars, fvars>>

\* FinallyBlock sending the initial value of `status`.
FinallyBlockDefaultStatus(i) ==
    /\ Alive(i) /\ tpc[i] = "finally"
    /\ remote' = [remote EXCEPT ![i] =
                    IF driver[i] = "open" THEN @ \o <<"failed", "quit">> ELSE @]
    /\ tpc' = [tpc EXCEPT ![i] = "done"]
    /\ UNCHANGED <<mpc, mi, driver, status, local, raised, lock, results,
                   writes, timedOut, listing, merged, analysed,
                   summary, emitted, exitStatus>>
    /\ UNCHANGED <<svars, fvars>>

\* finally: `if driver:` execute_script is called with the setSessionStatus
\* directive for `status` (an exception it raises is swallowed), then
\* driver.quit(); the thread ends.
FinallyBlock(i) ==
    /\ Alive(i) /\ tpc[i] = "finally"
    /\ remote' = [remote EXCEPT ![i] =
                    IF driver[i] = "open" THEN @ \o <<status[i], "quit">> ELSE @]
    /\ tpc' = [tpc EXCEPT ![i] = "done"]
    /\ UNCHANGED <<mpc, mi, driver, status, local, raised, lock, results,
                   writes, timedOut, listing, merged, analysed,
                   summary, emitted, exitStatus>>
    /\ UNCHANGED <<svars, fvars>>

(***************************************************************************)
(* browserstack_runner.py : main()                                         *)
(***************************************************************************)
Min(S) == CHOOSE x \in S : \A y \in S : x <= y

\* sorted(keys)
RECURSIVE SortedSeq(_)
SortedSeq(S) == IF S = {} THEN <<>> ELSE <<Min(S)>> \o SortedSeq(S \ {Min(S)})

Max(S) == CHOOSE x \in S : \A y \in S : x >= y

RECURSIVE SortedSeqDesc(_)
SortedSeqDesc(S) ==
    IF S = {} THEN <<>> ELSE <<Max(S)>> \o SortedSeqDesc(S \ {Max(S)})

\* ReportKeys with sorted(results.keys(), reverse=True).
ReportKeysDescending == SortedSeqDesc(DOMAIN results)

\* `for idx in sorted(results.keys())`
ReportKeys == SortedSeq(DOMAIN results)

\* all_translated_headers.extend(r["translated_headers"]) over the keys ks.
RECURSIVE MergeHeaders(_, _)
MergeHeaders(ks, res) ==
    IF ks = <<>> THEN <<>>
    ELSE res[Head(ks)].headers \o MergeHeaders(Tail(ks), res)

\* ExitStatus with sys.exit(1) as soon as the table shows a failed session.
ExitStatusAnyFailed(s) == IF \E k \in DOMAIN s : s[k] = "failed" THEN 1 ELSE 0

\* main() returns None and the module calls main() without sys.exit: the
\* interpreter exits with status 0 whatever the summary table s shows.
ExitStatus(s) == 0

\* The join loop or the start loop moves to the next thread.
Advance(next) ==
    IF mi < NumSessions
    THEN mi' = mi + 1 /\ mpc' = mpc
    ELSE mi' = 1 /\ mpc' = next

\* t.start(); time.sleep(0.5)
StartThread ==
    /\ mpc = "start"
    /\ tpc' = [tpc EXCEPT ![mi] = "create"]
    /\ Advance("join")
    /\ UNCHANGED <<driver, status, local, raised, lock, results, writes,
                   timedOut, listing, merged, analysed, summary, emitted,
                   remote, exitStatus>>
    /\ UNCHANGED <<svars, fvars>>

\* t.join(timeout=600) returns because the thread has ended.
JoinReturn ==
    /\ mpc = "join"
    /\ tpc[mi] = "done"
    /\ Advance("listing")
    /\ UNCHANGED <<tpc, driver, status, local, raised, lock, results, writes, timedOut, listing, merged, analysed, summary,
                   emitted, remote, exitStatus>>
    /\ UNCHANGED <<svars, fvars>>

\* JoinTimeout with t.join() called without a timeout: it returns only when
\* the thread has ended.
JoinBlocking ==
    /\ mpc = "join"
    /\ tpc[mi] = "done"
    /\ timedOut' = timedOut
    /\ Advance("listing")
    /\ UNCHANGED <<tpc, driver, status, local, raised, lock, results,
                   writes, listing, merged, analysed, summary, emitted, remote,
                   exitStatus>>
    /\ UNCHANGED <<svars, fvars>>

\* t.join(timeout=600) returns because 600 seconds have passed.
JoinTimeout ==
    /\ mpc = "join"
    /\ tpc[mi] # "done"
    /\ timedOut' = timedOut \cup {mi}
    /\ Advance("listing")
    /\ UNCHANGED <<tpc, driver, status, local, raised, lock, results, writes, listing, merged, analysed, summary, emitted, remote,
                   exitStatus>>
    /\ UNCHANGED <<svars, fvars>>

\* The consolidated per-session listing and the global word analysis,
\* print_analysis(all_translated_headers, threshold=2).  An entry is written
\* once, so the entries read in the loop are those present when the keys
\* were sorted.
BuildListing ==
    /\ mpc = "listing"
    /\ listing' = [k \in Range(ReportKeys) |-> results[k]]
    /\ merged' = MergeHeaders(ReportKeys, results)
    /\ analysed' = MergeHeaders(ReportKeys, results)
    /\ emitted' = emitted \o <<"listing", "analysis">>
    /\ mpc' = "summary"
    /\ UNCHANGED <<mi, tpc, driver, status, local, raised, lock, results,
                   writes, timedOut, summary, remote, exitStatus>>
    /\ UNCHANGED <<svars, fvars>>

\* The session status summary table; main() then returns, the interpreter
\* exits and the daemon threads still running are killed where they stand.
BuildSummary ==
    /\ mpc = "summary"
    /\ summary' = [k \in Range(ReportKeys) |-> results[k].status]
    /\ emitted' = Append(emitted, "summary")
    /\ exitStatus' = ExitStatus([k \in Range(ReportKeys) |-> results[k].status])
    /\ mpc' = "exited"
    /\ UNCHANGED <<mi, tpc, driver, status, local, raised, lock, results,
                   writes, timedOut, listing, merged, analysed, remote>>
    /\ UNCHANGED <<svars, fvars>>

(***************************************************************************)
(* Specifications                                                          *)
(***************************************************************************)
\* main() after `results = {}; lock = threading.Lock()` and the creation of
\* the Thread objects.
MainInit ==
    /\ mpc = "start"
    /\ mi = 1
    /\ tpc = [i \in Sessions |-> "pending"]
    /\ driver = [i \in Sessions |-> "none"]
    /\ status = [i \in Sessions |-> "failed"]
    /\ local = [i \in Sessions |-> [articles |-> <<>>, headers |-> <<>>]]
    /\ raised = {}
    /\ lock = 0
    /\ results = <<>>
    /\ writes = [i \in Sessions |-> 0]
    /\ timedOut = {}
    /\ listing = <<>>
    /\ merged = <<>>
    /\ analysed = <<>>
    /\ summary = <<>>
    /\ emitted = <<>>
    /\ remote = [i \in Sessions |-> <<>>]
    /\ exitStatus = -1

\* No scrape is being stepped.
ScrapeIdle ==
    /\ sc_pc = "idle"
    /\ sc_impl = "top"
    /\ sc_urls = <<>>
    /\ sc_out = <<>>
    /\ sc_idx = 1
    /\ sc_articles = <<>>
    /\ sc_tried = <<>>

\* No URL discovery is being stepped.
DiscoverIdle ==
    /\ d_pc = "idle"
    /\ d_impl = "top"
    /\ d_page = <<>>
    /\ d_sel = 1
    /\ d_hrefs = <<>>
    /\ d_scans = <<>>

\* No translation is being stepped.
TranslateIdle ==
    /\ t_pc = "idle"
    /\ t_impl = "top"
    /\ t_key = FALSE
    /\ t_text = <<>>
    /\ t_gresp = "transport"
    /\ t_resp = <<>>
    /\ t_calls = <<>>
    /\ t_ret = <<>>

\* No field extraction is being stepped.
ExtractIdle ==
    /\ x_pc = "idle"
    /\ x_impl = "top"
    /\ x_page = <<>>
    /\ x_tried = <<>>
    /\ x_ret = <<>>

\* No consent dismissal is being stepped.
ConsentIdle ==
    /\ c_pc = "idle"
    /\ c_impl = "top"
    /\ c_out = <<>>
    /\ c_idx = 1
    /\ c_log = <<>>

\* No image download is being stepped.
FetchIdle ==
    /\ f_pc = "idle"
    /\ f_in = <<>>
    /\ f_calls = 0
    /\ f_ret = "None"
    /\ f_record = <<>>

\* No word analysis is being stepped.
AnalyzeIdle ==
    /\ a_pc = "idle"
    /\ a_in = <<>>
    /\ a_run = 1
    /\ a_counter = <<>>
    /\ a_reports = <<>>
    /\ a_tables = <<>>

\* No word-frequency report has been produced.
NoReport == [made |-> FALSE, items |-> <<>>]

\* No single-session pipeline is being stepped.
PipeIdle ==
    /\ p_pc = "idle"
    /\ p_in = <<>>
    /\ p_articles = <<>>
    /\ p_headers = <<>>
    /\ p_report = NoReport

RestIdle == FetchIdle /\ AnalyzeIdle /\ PipeIdle

Init ==
    /\ MainInit /\ ScrapeIdle /\ DiscoverIdle /\ TranslateIdle /\ ExtractIdle /\ ConsentIdle
    /\ RestIdle

MainNext ==
    \/ StartThread
    \/ JoinReturn
    \/ JoinTimeout
    \/ BuildListing
    \/ BuildSummary

ThreadNext(i) ==
    \/ CreateDriver(i)
    \/ RunPipeline(i)
    \/ ExceptAcquire(i)
    \/ StorePassed(i)
    \/ StoreFailed(i)
    \/ FinallyBlock(i)

Next == MainNext \/ \E i \in Sessions : ThreadNext(i)

Spec == Init /\ [][Next]_vars

\* main() makes no blocking call without a timeout, so its steps are taken;
\* a session thread blocks on remote calls and is given no fairness.
FairSpec == Spec /\ WF_vars(MainNext)

ScrapeInit ==
    ScrapeInputs /\ MainInit /\ DiscoverIdle /\ TranslateIdle /\ ExtractIdle /\ ConsentIdle
        /\ RestIdle

ScrapeNext == SNavigate \/ SCollected \/ SArticle \/ SReturn

ScrapeSpec == ScrapeInit /\ [][ScrapeNext]_vars

(***************************************************************************)
(* scraper.py _is_article_url / _extract_article_urls and src/scraper.py   *)
(* ElPaisScraper._is_article_url / _collect_article_urls                   *)
(***************************************************************************)
\* An href is the sequence of the pieces of its text.  The pieces are chosen
\* so that none holds a part of a pattern the code searches for: a Python
\* substring test is a test for a run of pieces.
DateTokens == {"2024-01-01", "2024-01-02"}

\* https://elpais.com/opinion/2024-01-01/a.html
HrefA == <<"https://", "elpais.com", "/", "opinion", "/", "2024-01-01", "/", "a.html">>

\* https://elpais.com/opinion/2024-01-02/b.html
HrefB == <<"https://", "elpais.com", "/", "opinion", "/", "2024-01-02", "/", "b.html">>

\* https://elpais.com/opinion/ : the section root
HrefRoot == <<"https://", "elpais.com", "/", "opinion", "/">>

\* https://elpais.com/opinion/editoriales/ : an undated index page
HrefIndex == <<"https://", "elpais.com", "/", "opinion", "/", "editoriales", "/">>

\* https://facebook.com/sharer.php?u=https://elpais.com/opinion/2024-01-01/a.html
\* : a share button, the article address carried in the query string
HrefShare ==
    <<"https://", "facebook.com", "/", "sharer.php", "?u=">> \o HrefA

\* get_attribute("href") returned None or "": `href = ... or ""`
HrefEmpty == <<>>

Hrefs == {HrefA, HrefB, HrefRoot, HrefIndex, HrefShare, HrefEmpty}

\* pat in s
Contains(s, pat) ==
    \E k \in 1..(Len(s) - Len(pat) + 1) : SubSeq(s, k, k + Len(pat) - 1) = pat

\* s.rstrip("/")
RECURSIVE RStripSlash(_)
RStripSlash(s) ==
    IF s # <<>> /\ s[Len(s)] = "/" THEN RStripSlash(SubSeq(s, 1, Len(s) - 1)) ELSE s

\* s.endswith(suf)
EndsWith(s, suf) ==
    Len(s) >= Len(suf) /\ SubSeq(s, Len(s) - Len(suf) + 1, Len(s)) = suf

\* re.search(r"/\d{4}-\d{2}-\d{2}/", href)
HasDateSegment(href) == \E d \in DateTokens : Contains(href, <<"/", d, "/">>)

\* _is_article_url(href); only the top-level function has the test for the
\* bare opinion root.
IsArticleUrl(impl, href) ==
    /\ href # <<>>
    /\ Contains(href, <<"elpais.com">>)
    /\ Contains(href, <<"/", "opinion", "/">>)
    /\ HasDateSegment(href)
    /\ impl = "top" => ~EndsWith(RStripSlash(href), <<"/", "opinion">>)

\* Where an <a> element can sit in the listing page, and the card selectors
\* that then match it.
LinkKinds == {"plain", "headline", "card"}

Matching(kind) ==
    IF kind = "card" THEN {"article.c a[href]", "article a[href]"}
    ELSE IF kind = "headline" THEN {"article h2 a", "h2.c_t a", "article a[href]"}
    ELSE {}

\* `selectors` / `css_selectors`
CardSelectors(impl) ==
    IF impl = "top"
    THEN <<"article.c a[href]", "article h2 a", "h2.c_t a", "div.c_d h2 a",
           "div.c_h a", "article a[href]">>
    ELSE <<"article h2 a", "h2.c_t a", "article a[href]">>

\* The hrefs of driver.find_elements(By.CSS_SELECTOR, selector), in document
\* order; selector "a" is find_elements(By.TAG_NAME, "a").
RECURSIVE FindElements(_, _)
FindElements(page, selector) ==
    IF page = <<>> THEN <<>>
    ELSE (IF selector = "a" \/ selector \in Matching(Head(page).kind)
          THEN <<Head(page).href>> ELSE <<>>) \o FindElements(Tail(page), selector)

\* ScanElems without the `href not in seen` test.
RECURSIVE ScanElemsNoDedup(_, _, _)
ScanElemsNoDedup(impl, elems, acc) ==
    IF elems = <<>> THEN acc
    ELSE LET h == Head(elems)
             acc2 == IF IsArticleUrl(impl, h) THEN Append(acc, h) ELSE acc
         IN  IF Len(acc2) >= MaxArticles THEN acc2
             ELSE ScanElemsNoDedup(impl, Tail(elems), acc2)

\* `for el in elements:` with acc the list collected so far (`seen` holds
\* exactly its members): a qualifying href not yet seen is appended, and the
\* loop is left as soon as MAX_ARTICLES are collected.
RECURSIVE ScanElems(_, _, _)
ScanElems(impl, elems, acc) ==
    IF elems = <<>> THEN acc
    ELSE LET h == Head(elems)
             acc2 == IF IsArticleUrl(impl, h) /\ h \notin Range(acc)
                     THEN Append(acc, h) ELSE acc
         IN  IF Len(acc2) >= MaxArticles THEN acc2
             ELSE ScanElems(impl, Tail(elems), acc2)

Links == [href : Hrefs, kind : LinkKinds]

DiscoverInputs ==
    /\ d_pc = "cards"
    /\ d_impl \in {"top", "class"}
    /\ d_page \in SeqsUpTo(Links, MaxLinks)
    /\ d_sel = 1
    /\ d_hrefs = <<>>
    /\ d_scans = <<>>

\* One pass of `for selector in selectors:`.  With MAX_ARTICLES collected
\* the function returns (the class-based one breaks out of both loops and
\* skips the fallback); after the last selector the fallback follows.
DScanSelector ==
    /\ d_pc = "cards"
    /\ LET sel == CardSelectors(d_impl)[d_sel]
           h == ScanElems(d_impl, FindElements(d_page, sel), d_hrefs)
       IN  /\ d_hrefs' = h
           /\ d_scans' = Append(d_scans, sel)
           /\ d_sel' = d_sel + 1
           /\ d_pc' = IF Len(h) >= MaxArticles THEN "returned"
                      ELSE IF d_sel = Len(CardSelectors(d_impl)) THEN "all"
                      ELSE "cards"
    /\ UNCHANGED <<d_impl, d_page>>
    /\ UNCHANGED <<ovars, svars, tvars, xvars, cvars, nvars>>

\* The last resort: every link of the page is scanned, then the list is
\* returned.
DScanAll ==
    /\ d_pc = "all"
    /\ d_hrefs' = ScanElems(d_impl, FindElements(d_page, "a"), d_hrefs)
    /\ d_scans' = Append(d_scans, "a")
    /\ d_pc' = "returned"
    /\ UNCHANGED <<d_impl, d_page, d_sel>>
    /\ UNCHANGED <<ovars, svars, tvars, xvars, cvars, nvars>>

DiscoverInit ==
    DiscoverInputs /\ MainInit /\ ScrapeIdle /\ TranslateIdle /\ ExtractIdle /\ ConsentIdle
        /\ RestIdle

DiscoverNext == DScanSelector \/ DScanAll

DiscoverSpec == DiscoverInit /\ [][DiscoverNext]_vars

(***************************************************************************)
(* translator.py translate_es_to_en / _google_translate /                  *)
(* _mymemory_translate and src/translator.py ArticleTranslator.translate   *)
(***************************************************************************)
\* `retries`
Retries == 3

\* A text is the sequence of its words.
InputTexts == {<<>>, <<"paz">>}

\* "INVALID LANGUAGE PAIR SPECIFIED"
Sentinel == <<"INVALID", "LANGUAGE", "PAIR", "SPECIFIED">>

ResponseTexts ==
    { <<>>,
      Sentinel,
      <<"Invalid", "language", "pair", "specified">>,
      <<"An", "invalid", "argument">>,
      <<"peace">> }

\* word.upper()
UpperWord(w) ==
    CASE w \in {"Invalid", "invalid"} -> "INVALID"
      [] w = "language" -> "LANGUAGE"
      [] w = "pair" -> "PAIR"
      [] w = "specified" -> "SPECIFIED"
      [] w = "An" -> "AN"
      [] w = "argument" -> "ARGUMENT"
      [] w = "peace" -> "PEACE"
      [] w = "paz" -> "PAZ"
      [] OTHER -> w

\* text.upper()
UpperText(s) == [k \in 1..Len(s) |-> UpperWord(s[k])]

\* What one HTTP call to a provider does.
\*   transport   : requests.get / post raises (ConnectionError, Timeout)
\*   http        : raise_for_status() raises HTTPError
\*   badjson_req : the body is not JSON and resp.json() raises
\*                 requests.exceptions.JSONDecodeError, a RequestException
\*   badjson_val : the body is not JSON and resp.json() raises ValueError
\*                 (requests before 2.27)
\*   nullfield   : JSON in which the object holding the translation is null
\*   incomplete  : a JSON object without the keys of the translation
\*   text        : the translation field holds `text`
ErrorKinds == {"transport", "http", "badjson_req", "badjson_val", "nullfield", "incomplete"}

Behaviours ==
    {[kind |-> e, text |-> <<>>] : e \in ErrorKinds}
        \cup {[kind |-> "text", text |-> s] : s \in ResponseTexts}

\* The acceptance test on `translated`.
Accepted(impl, s) ==
    IF impl = "top" THEN s # <<>> /\ UpperText(s) # Sentinel
    ELSE s # <<>> /\ "INVALID" \notin Range(UpperText(s))

\* One pass of the retry loop over behaviour b: "accept" returns the
\* translation, "next" goes to the next attempt, "raise" leaves the function
\* with the exception.  _mymemory_translate catches requests.RequestException
\* and reads the fields with .get; translate catches Exception.
MyMemoryAttempt(impl, b) ==
    IF b.kind = "text" THEN (IF Accepted(impl, b.text) THEN "accept" ELSE "next")
    ELSE IF impl = "class" THEN "next"
    ELSE IF b.kind \in {"transport", "http", "badjson_req", "incomplete"} THEN "next"
    ELSE "raise"

\* Calls made by the retry loop so far.
MyMemoryCalls == Cardinality({k \in 1..Len(t_calls) : t_calls[k] = "mymemory"})

TranslateInputs ==
    /\ t_pc = "start"
    /\ t_impl \in {"top", "class"}
    /\ t_key \in (IF t_impl = "top" THEN BOOLEAN ELSE {FALSE})
    /\ t_text \in InputTexts
    /\ t_gresp \in (IF t_key THEN Behaviours ELSE {[kind |-> "transport", text |-> <<>>]})
    /\ t_resp \in [1..Retries -> Behaviours]
    /\ t_calls = <<>>
    /\ t_ret = <<>>

\* translate_es_to_en picks the provider by GOOGLE_API_KEY;
\* ArticleTranslator.translate returns an empty text at once.
TDispatch ==
    /\ t_pc = "start"
    /\ IF t_impl = "class"
       THEN IF t_text = <<>>
            THEN t_pc' = "returned" /\ t_ret' = t_text
            ELSE t_pc' = "mymemory" /\ UNCHANGED t_ret
       ELSE t_pc' = (IF t_key THEN "google" ELSE "mymemory") /\ UNCHANGED t_ret
    /\ UNCHANGED <<t_impl, t_key, t_text, t_gresp, t_resp, t_calls>>
    /\ UNCHANGED <<ovars, svars, dvars, xvars, cvars, nvars>>

\* _google_translate: one call; the translatedText of the reply is returned
\* as it is, and any exception hands over to _mymemory_translate.
TGoogle ==
    /\ t_pc = "google"
    /\ t_calls' = Append(t_calls, "google")
    /\ IF t_gresp.kind = "text"
       THEN t_pc' = "returned" /\ t_ret' = t_gresp.text
       ELSE t_pc' = "mymemory" /\ UNCHANGED t_ret
    /\ UNCHANGED <<t_impl, t_key, t_text, t_gresp, t_resp>>
    /\ UNCHANGED <<ovars, svars, dvars, xvars, cvars, nvars>>

\* One pass of `for attempt in range(retries)`.
TMyMemory ==
    /\ t_pc = "mymemory"
    /\ MyMemoryCalls < Retries
    /\ LET b == t_resp[MyMemoryCalls + 1]
           r == MyMemoryAttempt(t_impl, b)
       IN  /\ t_calls' = Append(t_calls, "mymemory")
           /\ t_pc' = IF r = "accept" THEN "returned"
                      ELSE IF r = "raise" THEN "raised" ELSE "mymemory"
           /\ t_ret' = IF r = "accept" THEN b.text ELSE t_ret
    /\ UNCHANGED <<t_impl, t_key, t_text, t_gresp, t_resp>>
    /\ UNCHANGED <<ovars, svars, dvars, xvars, cvars, nvars>>

\* The loop is exhausted: `return text`.
TExhausted ==
    /\ t_pc = "mymemory"
    /\ MyMemoryCalls >= Retries
    /\ t_pc' = "returned"
    /\ t_ret' = t_text
    /\ UNCHANGED <<t_impl, t_key, t_text, t_gresp, t_resp, t_calls>>
    /\ UNCHANGED <<ovars, svars, dvars, xvars, cvars, nvars>>

TranslateInit ==
    TranslateInputs /\ MainInit /\ ScrapeIdle /\ DiscoverIdle /\ ExtractIdle /\ ConsentIdle
        /\ RestIdle

TranslateNext == TDispatch \/ TGoogle \/ TMyMemory \/ TExhausted

TranslateSpec == TranslateInit /\ [][TranslateNext]_vars

(***************************************************************************)
(* scraper.py _extract_title / _extract_content / _extract_image_url and   *)
(* the methods of the same names of src/scraper.py ElPaisScraper           *)
(***************************************************************************)
\* A text is the sequence of its pieces, " " standing for white space.
\* s.strip()
RECURSIVE LStrip(_)
LStrip(s) == IF s # <<>> /\ Head(s) = " " THEN LStrip(Tail(s)) ELSE s

RECURSIVE RStrip(_)
RStrip(s) == IF s # <<>> /\ s[Len(s)] = " " THEN RStrip(SubSeq(s, 1, Len(s) - 1)) ELSE s

Strip(s) == RStrip(LStrip(s))

\* The texts an element tagged `tag` can hold: empty, white space only, or
\* a text of its own with white space around it.
TextsOf(tag) == {<<>>, <<" ">>, <<" ", tag, " ">>}

\* The heading selectors of _extract_title, in order.
HeadingSelectors(impl) ==
    IF impl = "top" THEN <<"h1.a_t", "h1.article-title", "h1">> ELSE <<"h1.a_t", "h1">>

AllHeadingSelectors == {"h1.a_t", "h1.article-title", "h1"}

\* What _safe_find(selector) gives: no element within the wait, or an
\* element with its text.
HeadingElements(sel) ==
    {[present |-> FALSE, text |-> <<>>]}
        \cup {[present |-> TRUE, text |-> t] : t \in TextsOf(sel)}

\* <meta property='og:title'>: missing, without a content attribute
\* (get_attribute returns None), or with a content.
OgTitles ==
    {[present |-> FALSE, hasContent |-> FALSE, content |-> <<>>],
     [present |-> TRUE, hasContent |-> FALSE, content |-> <<>>]}
        \cup {[present |-> TRUE, hasContent |-> TRUE, content |-> t] : t \in TextsOf("og:title")}

\* An element matched by "h1.a_t" or "h1.article-title" is matched by "h1".
TitlePages ==
    {p \in [kind : {"title"},
            h : [AllHeadingSelectors -> UNION {HeadingElements(s) : s \in AllHeadingSelectors}],
            og : OgTitles,
            title : {<<>>, <<" ", "title", " ">>}] :
        /\ \A s \in AllHeadingSelectors : p.h[s] \in HeadingElements(s)
        /\ (p.h["h1.a_t"].present \/ p.h["h1.article-title"].present) => p.h["h1"].present}

\* `for selector in [...]: el = _safe_find(...); if el and el.text.strip():
\* return el.text.strip()`, from selector k on.  found = FALSE when the
\* loop ends without a return.
RECURSIVE TitleFromHeadings(_, _, _, _)
TitleFromHeadings(sels, page, k, tried) ==
    IF k > Len(sels) THEN [found |-> FALSE, value |-> <<>>, tried |-> tried]
    ELSE LET el == page.h[sels[k]]
         IN  IF el.present /\ Strip(el.text) # <<>>
             THEN [found |-> TRUE, value |-> Strip(el.text), tried |-> Append(tried, sels[k])]
             ELSE TitleFromHeadings(sels, page, k + 1, Append(tried, sels[k]))

\* _extract_title: the headings, then og:title, whose content is returned
\* stripped whenever the meta element exists (None.strip() raises
\* AttributeError), then driver.title.
ExtractTitle(impl, page) ==
    LET hd == TitleFromHeadings(HeadingSelectors(impl), page, 1, <<>>)
    IN  IF hd.found THEN [raised |-> FALSE, value |-> hd.value, tried |-> hd.tried]
        ELSE IF page.og.present
        THEN (IF page.og.hasContent
              THEN [raised |-> FALSE, value |-> Strip(page.og.content),
                    tried |-> Append(hd.tried, "og:title")]
              ELSE [raised |-> TRUE, value |-> <<>>,
                    tried |-> Append(hd.tried, "og:title")])
        ELSE [raised |-> FALSE, value |-> Strip(page.title),
              tried |-> hd.tried \o <<"og:title", "title">>]

\* The strategies of _extract_image_url, in order; ElPaisScraper has no
\* "div.a_m img".
ImageStrategies(impl) ==
    IF impl = "top" THEN <<"og:image", "figure img", "div.a_m img">>
    ELSE <<"og:image", "figure img">>

AllImageStrategies == {"og:image", "figure img", "div.a_m img"}

\* What a strategy finds: no element (NoSuchElementException), an element
\* without the attribute (None), or the attribute's value.
ImageValues(st) ==
    {[present |-> FALSE, hasAttr |-> FALSE, url |-> <<>>],
     [present |-> TRUE, hasAttr |-> FALSE, url |-> <<>>],
     [present |-> TRUE, hasAttr |-> TRUE, url |-> <<>>],
     [present |-> TRUE, hasAttr |-> TRUE, url |-> <<"data:", st>>],
     [present |-> TRUE, hasAttr |-> TRUE, url |-> <<"http", "s://img/", st>>]}

ImagePages ==
    {p \in [kind : {"image"},
            img : [AllImageStrategies -> UNION {ImageValues(s) : s \in AllImageStrategies}]] :
        \A s \in AllImageStrategies : p.img[s] \in ImageValues(s)}

\* url.startswith("http")
StartsWithHttp(url) == url # <<>> /\ Head(url) = "http"

\* The value for None.
NoImage == <<>>

\* `for fn in strategies:` from strategy k on.
RECURSIVE ImageFrom(_, _, _, _)
ImageFrom(sts, page, k, tried) ==
    IF k > Len(sts) THEN [raised |-> FALSE, value |-> NoImage, tried |-> tried]
    ELSE LET v == page.img[sts[k]]
         IN  IF v.present /\ v.hasAttr /\ StartsWithHttp(v.url)
             THEN [raised |-> FALSE, value |-> v.url, tried |-> Append(tried, sts[k])]
             ELSE ImageFrom(sts, page, k + 1, Append(tried, sts[k]))

\* _extract_image_url
ExtractImageUrl(impl, page) == ImageFrom(ImageStrategies(impl), page, 1, <<>>)

\* text[:600]
BodyCap == 600

\* The body selectors of _extract_content, in order.
BodySelectors(impl) ==
    IF impl = "top"
    THEN <<"div.a_b p", "article p", "div.article-body p",
           "div[data-dtm-region='articulo_cuerpo'] p">>
    ELSE <<"div.a_b p", "article p", "div.article-body p">>

AllBodySelectors ==
    {"div.a_b p", "article p", "div.article-body p",
     "div[data-dtm-region='articulo_cuerpo'] p"}

\* What find_elements gives for a body selector: the paragraphs, each given
\* by the length of its stripped text (0: empty or white space only).
ParagraphLists == {<<>>, <<0>>, <<600>>, <<601>>, <<299, 300>>, <<299, 0, 301>>}

BodyPages == [kind : {"body"}, body : [AllBodySelectors -> ParagraphLists]]

\* `p.text.strip() for p in paragraphs if p.text.strip()`
RECURSIVE NonEmptyParas(_)
NonEmptyParas(ps) ==
    IF ps = <<>> THEN <<>>
    ELSE (IF Head(ps) > 0 THEN <<Head(ps)>> ELSE <<>>) \o NonEmptyParas(Tail(ps))

RECURSIVE SumLen(_)
SumLen(ps) == IF ps = <<>> THEN 0 ELSE Head(ps) + SumLen(Tail(ps))

\* len(" ".join(parts))
JoinedLen(parts) == IF parts = <<>> THEN 0 ELSE SumLen(parts) + Len(parts) - 1

\* Truncate with the marker added from 600 characters on.
TruncateOffByOne(total) ==
    [len |-> IF total > BodyCap THEN BodyCap ELSE total, marker |-> total >= BodyCap]

\* text[:600] + ("…" if len(text) > 600 else ""), for a text of `total`
\* characters: how many of them are kept, and whether the marker follows.
Truncate(total) ==
    [len |-> IF total > BodyCap THEN BodyCap ELSE total, marker |-> total > BodyCap]

\* "(Content not available)", 23 characters.
Placeholder == [from |-> "(Content not available)", parts |-> <<>>, len |-> 23, marker |-> FALSE]

\* `for selector in body_selectors:` from selector k on.  The string
\* returned is given by the selector and paragraphs it was joined from, the
\* number of their characters kept and the marker.
RECURSIVE BodyFrom(_, _, _, _)
BodyFrom(sels, page, k, tried) ==
    IF k > Len(sels) THEN [raised |-> FALSE, value |-> Placeholder, tried |-> tried]
    ELSE LET parts == NonEmptyParas(page.body[sels[k]])
             total == JoinedLen(parts)
         IN  IF total > 0
             THEN [raised |-> FALSE,
                   value |-> [from |-> sels[k], parts |-> parts,
                              len |-> Truncate(total).len,
                              marker |-> Truncate(total).marker],
                   tried |-> Append(tried, sels[k])]
             ELSE BodyFrom(sels, page, k + 1, Append(tried, sels[k]))

\* _extract_content
ExtractContent(impl, page) == BodyFrom(BodySelectors(impl), page, 1, <<>>)

ExtractInputs ==
    /\ x_pc = "call"
    /\ x_impl \in {"top", "class"}
    /\ \/ x_page \in TitlePages
       \/ x_page \in BodyPages
       \/ x_page \in ImagePages
    /\ x_tried = <<>>
    /\ x_ret = <<>>

\* The extractor r has run on the loaded page.
Extracted(r) ==
    /\ x_pc' = IF r.raised THEN "raised" ELSE "returned"
    /\ x_ret' = r.value
    /\ x_tried' = r.tried
    /\ UNCHANGED <<x_impl, x_page>>
    /\ UNCHANGED <<ovars, svars, dvars, tvars, cvars, nvars>>

\* title = _extract_title(driver)
XTitle == x_pc = "call" /\ x_page.kind = "title" /\ Extracted(ExtractTitle(x_impl, x_page))

\* content = _extract_content(driver)
XContent == x_pc = "call" /\ x_page.kind = "body" /\ Extracted(ExtractContent(x_impl, x_page))

\* img_url = _extract_image_url(driver)
XImage == x_pc = "call" /\ x_page.kind = "image" /\ Extracted(ExtractImageUrl(x_impl, x_page))

ExtractInit ==
    ExtractInputs /\ MainInit /\ ScrapeIdle /\ DiscoverIdle /\ TranslateIdle /\ ConsentIdle
        /\ RestIdle

ExtractNext == XTitle \/ XContent \/ XImage

ExtractSpec == ExtractInit /\ [][ExtractNext]_vars

(***************************************************************************)
(* scraper.py _dismiss_consent and src/scraper.py                          *)
(* ElPaisScraper._dismiss_consent                                          *)
(***************************************************************************)
\* `consent_selectors` / `selectors`, in order.
ConsentSelectors(impl) ==
    IF impl = "top"
    THEN <<"#didomi-notice-agree-button", "//button[aceptar]", "//button[@class accept]",
           "//button[Accept]", "button.css-1ynyhfy", "[data-testid='accept-button']">>
    ELSE <<"#didomi-notice-agree-button", "//button[aceptar]", "button.css-1ynyhfy",
           "//button[@class accept]", "//button[Accept]">>

\* What the body of the try block does for one locator.
\*   timeout     : no clickable match within 5 s, TimeoutException
\*   wde         : the wait raises another WebDriverException
\*   click_fails : a button is found and btn.click() raises a
\*                 WebDriverException (click intercepted, stale element)
\*   clicked     : the button is found and clicked
ConsentOutcomes == {"timeout", "wde", "click_fails", "clicked"}

\* ConsentStep with `except TimeoutException:` alone.
ConsentStepTimeoutOnly(o) ==
    IF o = "clicked" THEN "return" ELSE IF o = "timeout" THEN "continue" ELSE "raise"

\* One pass of the loop on outcome o: `return` after the click, `continue`
\* under `except (TimeoutException, NoSuchElementException,
\* WebDriverException)`.
ConsentStep(o) == IF o = "clicked" THEN "return" ELSE "continue"

ConsentInputs ==
    /\ c_pc = "loop"
    /\ c_impl \in {"top", "class"}
    /\ c_out \in [1..Len(ConsentSelectors(c_impl)) -> ConsentOutcomes]
    /\ c_idx = 1
    /\ c_log = <<>>

\* One pass of `for by, value in consent_selectors:`: the wait for a
\* clickable element, the click when there is one, then return or continue.
CTryLocator ==
    /\ c_pc = "loop"
    /\ c_idx <= Len(ConsentSelectors(c_impl))
    /\ LET sel == ConsentSelectors(c_impl)[c_idx]
           o == c_out[c_idx]
           wait == [sel |-> sel, op |-> "wait", ok |-> o \in {"click_fails", "clicked"}]
           click == [sel |-> sel, op |-> "click", ok |-> o = "clicked"]
       IN  /\ c_log' = IF wait.ok THEN c_log \o <<wait, click>> ELSE Append(c_log, wait)
           /\ c_pc' = IF ConsentStep(o) = "return" THEN "returned"
                      ELSE IF ConsentStep(o) = "raise" THEN "raised" ELSE "loop"
           /\ c_idx' = c_idx + 1
    /\ UNCHANGED <<c_impl, c_out>>
    /\ UNCHANGED <<ovars, svars, dvars, tvars, xvars, nvars>>

\* The list is exhausted: "No consent banner found" is printed and the
\* function returns.
CNoBanner ==
    /\ c_pc = "loop"
    /\ c_idx > Len(ConsentSelectors(c_impl))
    /\ c_pc' = "returned"
    /\ UNCHANGED <<c_impl, c_out, c_idx, c_log>>
    /\ UNCHANGED <<ovars, svars, dvars, tvars, xvars, nvars>>

ConsentInit ==
    ConsentInputs /\ MainInit /\ ScrapeIdle /\ DiscoverIdle /\ TranslateIdle /\ ExtractIdle
        /\ RestIdle

ConsentNext == CTryLocator \/ CNoBanner

ConsentSpec == ConsentInit /\ [][ConsentNext]_vars

(***************************************************************************)
(* scraper.py _download_image with its call in run_scraper, and            *)
(* src/scraper.py ElPaisScraper._download_image                            *)
(***************************************************************************)
\* What one download does.
\*   ok      : the bytes are fetched and written
\*   connect : requests.get raises ConnectionError
\*   timeout : requests.get raises Timeout
\*   http    : raise_for_status() raises HTTPError
\*   stream  : iter_content raises while the body is read
\*   write   : open() or fh.write() raises OSError
FetchOutcomes == {"ok", "connect", "timeout", "http", "stream", "write"}

\* FetchAttempt with `except requests.RequestException` for `except Exception`.
FetchAttemptRequestsOnly(o) ==
    IF o = "ok" THEN "path" ELSE IF o = "write" THEN "raise" ELSE "None"

\* The try block of _download_image on outcome o: `return dest_path`, or
\* `return None` under `except Exception`.
FetchAttempt(o) == IF o = "ok" THEN "path" ELSE "None"

\* url: image_url is an http URL (TRUE) or None (FALSE).  mkdir: what
\* os.makedirs(dest_dir, exist_ok=True) does.  outcomes[k]: what the k-th
\* download of the image would do.
FetchInputs ==
    /\ f_pc = "call"
    /\ f_in \in [impl : {"top", "class"}, url : BOOLEAN, mkdir : {"ok", "oserror"},
                 outcomes : [1..2 -> FetchOutcomes]]
    /\ f_calls = 0
    /\ f_ret = "None"
    /\ f_record = <<>>

\* run_scraper: `image_path = None; if image_url:`; ElPaisScraper:
\* `if not image_url: return None`.
FCall ==
    /\ f_pc = "call"
    /\ f_pc' = IF ~f_in.url THEN "record"
               ELSE IF f_in.impl = "top" THEN "makedirs" ELSE "request"
    /\ UNCHANGED <<f_in, f_calls, f_ret, f_record>>
    /\ UNCHANGED <<ovars, svars, dvars, tvars, xvars, cvars, avars, pvars>>

\* os.makedirs(dest_dir, exist_ok=True), before the try block: its OSError
\* leaves _download_image and, not being a WebDriverException, run_scraper.
FMakedirs ==
    /\ f_pc = "makedirs"
    /\ f_pc' = IF f_in.mkdir = "ok" THEN "request" ELSE "raised"
    /\ UNCHANGED <<f_in, f_calls, f_ret, f_record>>
    /\ UNCHANGED <<ovars, svars, dvars, tvars, xvars, cvars, avars, pvars>>

\* The try block: one requests.get, raise_for_status, the write loop.
FRequest ==
    /\ f_pc = "request"
    /\ f_calls' = f_calls + 1
    /\ LET r == FetchAttempt(f_in.outcomes[f_calls + 1])
       IN  /\ f_pc' = IF r = "raise" THEN "raised" ELSE "record"
           /\ f_ret' = IF r = "raise" THEN f_ret ELSE r
    /\ UNCHANGED <<f_in, f_record>>
    /\ UNCHANGED <<ovars, svars, dvars, tvars, xvars, cvars, avars, pvars>>

\* articles.append({..., "image": image_path, ...})
FRecord ==
    /\ f_pc = "record"
    /\ f_record' = Append(f_record, [image |-> f_ret])
    /\ f_pc' = "done"
    /\ UNCHANGED <<f_in, f_calls, f_ret>>
    /\ UNCHANGED <<ovars, svars, dvars, tvars, xvars, cvars, avars, pvars>>

FetchInit ==
    /\ FetchInputs /\ AnalyzeIdle /\ PipeIdle
    /\ MainInit /\ ScrapeIdle /\ DiscoverIdle /\ TranslateIdle /\ ExtractIdle /\ ConsentIdle

FetchNext == FCall \/ FMakedirs \/ FRequest \/ FRecord

FetchSpec == FetchInit /\ [][FetchNext]_vars

(***************************************************************************)
(* analyzer.py (tokenize, count_words, find_repeated_words,                *)
(* print_analysis) and src/analyzer.py (WordAnalyzer)                      *)
(***************************************************************************)
\* A text is a sequence of characters; a token is a sequence of characters.
UpperCase == <<"A", "B", "C", "D", "E", "F", "G", "H", "I", "J", "K", "L", "M",
               "N", "O", "P", "Q", "R", "S", "T", "U", "V", "W", "X", "Y", "Z">>
LowerCase == <<"a", "b", "c", "d", "e", "f", "g", "h", "i", "j", "k", "l", "m",
               "n", "o", "p", "q", "r", "s", "t", "u", "v", "w", "x", "y", "z">>

IndexIn(c, s) == CHOOSE i \in 1..Len(s) : s[i] = c

\* Lower without the case folding.
LowerAsIs(c) == c

\* str.lower() on one character.
Lower(c) == IF c \in Range(UpperCase) THEN LowerCase[IndexIn(c, UpperCase)] ELSE c

LowerText(text) == [i \in 1..Len(text) |-> Lower(text[i])]

\* The character class [a-zA-Z] of the split pattern.
IsAlpha(c) == c \in Range(UpperCase) \cup Range(LowerCase)

\* re.split(r"[^a-zA-Z]+", s): the pieces between maximal runs of
\* non-alphabetic characters, empty pieces at either end included.
RECURSIVE SplitFrom(_, _, _)
SplitFrom(s, i, acc) ==
    IF i > Len(s) THEN acc
    ELSE IF IsAlpha(s[i])
         THEN SplitFrom(s, i + 1,
                        [acc EXCEPT ![Len(acc)] = Append(acc[Len(acc)], s[i])])
         ELSE IF i > 1 /\ ~IsAlpha(s[i - 1])
              THEN SplitFrom(s, i + 1, acc)
              ELSE SplitFrom(s, i + 1, Append(acc, <<>>))

RawTokens(text) == SplitFrom(LowerText(text), 1, << <<>> >>)

MinWordLength == 3

\* The members of STOP_WORDS that the tokens of SampleTexts can spell: "the",
\* "of" and "it" are in both sets, "out" only in analyzer.py's.
StopWords(impl) ==
    {<<"t", "h", "e">>, <<"o", "f">>, <<"i", "t">>}
        \cup (IF impl = "top" THEN {<<"o", "u", "t">>} ELSE {})

\* `t and len(t) >= MIN_WORD_LENGTH and t not in STOP_WORDS`
Survives(impl, t) ==
    /\ t # <<>>
    /\ Len(t) >= MinWordLength
    /\ t \notin StopWords(impl)

Tokenize(impl, text) == SelectSeq(RawTokens(text), LAMBDA t : Survives(impl, t))

\* A Counter (and the dict made of it) is the sequence of its items in
\* insertion order.
Words(counter) == {counter[i].word : i \in 1..Len(counter)}

\* counter[t] += 1
CounterAdd(counter, t) ==
    IF t \in Words(counter)
    THEN [i \in 1..Len(counter) |->
            IF counter[i].word = t
            THEN [counter[i] EXCEPT !.cnt = @ + 1] ELSE counter[i]]
    ELSE Append(counter, [word |-> t, cnt |-> 1])

\* counter.update(tokens)
RECURSIVE CounterUpdate(_, _)
CounterUpdate(counter, tokens) ==
    IF tokens = <<>> THEN counter
    ELSE CounterUpdate(CounterAdd(counter, Head(tokens)), Tail(tokens))

\* NewCounter for a counter kept at module level.
KeptCounter(old) == old

\* `counter: Counter = Counter()` at the start of every call.
NewCounter(old) == <<>>

\* `for header in headers: counter.update(tokenize(header))`
RECURSIVE CountInto(_, _, _)
CountInto(impl, headers, counter) ==
    IF headers = <<>> THEN counter
    ELSE CountInto(impl, Tail(headers),
                   CounterUpdate(counter, Tokenize(impl, Head(headers))))

\* Exceeds with `>=`.
ExceedsOrEqual(cnt, threshold) == cnt >= threshold

\* `cnt > threshold`
Exceeds(cnt, threshold) == cnt > threshold

\* {word: cnt for word, cnt in freq.items() if cnt > threshold}
Repeated(freq, threshold) ==
    SelectSeq(freq, LAMBDA item : Exceeds(item.cnt, threshold))

\* Python's order of two words: by code point, upper case before lower case.
Letters == UpperCase \o LowerCase

RECURSIVE LexLess(_, _)
LexLess(a, b) ==
    IF b = <<>> THEN FALSE
    ELSE IF a = <<>> THEN TRUE
    ELSE IF Head(a) = Head(b) THEN LexLess(Tail(a), Tail(b))
    ELSE IndexIn(Head(a), Letters) < IndexIn(Head(b), Letters)

\* RowKeyLess with the key (x[1], x[0]).
RowKeyLessAscending(a, b) ==
    \/ a.cnt < b.cnt
    \/ a.cnt = b.cnt /\ LexLess(a.word, b.word)

\* key=lambda x: (-x[1], x[0])
RowKeyLess(a, b) ==
    \/ a.cnt > b.cnt
    \/ a.cnt = b.cnt /\ LexLess(a.word, b.word)

\* sorted(): a stable sort, here by insertion.
RECURSIVE InsertRow(_, _)
InsertRow(sorted, item) ==
    IF sorted = <<>> THEN <<item>>
    ELSE IF RowKeyLess(item, Head(sorted)) THEN <<item>> \o sorted
    ELSE <<Head(sorted)>> \o InsertRow(Tail(sorted), item)

RECURSIVE SortRows(_, _)
SortRows(items, sorted) ==
    IF items = <<>> THEN sorted
    ELSE SortRows(Tail(items), InsertRow(sorted, Head(items)))

\* PrintedRows for a loop over repeated.items().
PrintedRowsUnsorted(repeated) == repeated

\* The rows print_analysis / print_report print: none after `if not
\* repeated:`, else one per item of sorted(repeated.items(), key=...).
PrintedRows(repeated) ==
    IF repeated = <<>> THEN <<>> ELSE SortRows(repeated, <<>>)

TextWarArt == <<"W", "a", "r", " ", "a", "r", "t">>
TextArtWar == <<"a", "r", "t", "-", "w", "a", "r">>
TextStops  == <<"t", "h", "e", " ", "o", "f", " ", "o", "u", "t">>
TextMixed  == <<"w", "a", "r", "1", "T", "H", "E", " ", " ", "i", "t">>
SampleTexts == {TextWarArt, TextArtWar, TextStops, TextMixed}

MaxHeaders == 3
MaxThreshold == 2

\* The reorderings of a list of headers.
Reorderings(h) ==
    {[i \in 1..Len(h) |-> h[f[i]]] : f \in Permutations(1..Len(h))}

\* headers: the list analysed; perm: the same headers in another order;
\* threshold: the threshold of every call.
AnalyzeInputs ==
    /\ a_pc = "count"
    /\ \E h \in SeqsUpTo(SampleTexts, MaxHeaders) :
       \E p \in Reorderings(h) :
       \E impl \in {"top", "class"}, t \in 0..MaxThreshold :
           a_in = [impl |-> impl, headers |-> h, perm |-> p, threshold |-> t]
    /\ a_run = 1
    /\ a_counter = <<>>
    /\ a_reports = <<>>
    /\ a_tables = <<>>

\* The argument of the a_run-th call: the headers twice, then reordered.
CallHeaders == IF a_run <= 2 THEN a_in.headers ELSE a_in.perm

\* count_words(headers) / the counting loop of WordAnalyzer.analyze
ACount ==
    /\ a_pc = "count"
    /\ a_counter' = CountInto(a_in.impl, CallHeaders, NewCounter(a_counter))
    /\ a_pc' = "report"
    /\ UNCHANGED <<a_in, a_run, a_reports, a_tables>>
    /\ UNCHANGED <<ovars, svars, dvars, tvars, xvars, cvars, ivars, pvars>>

\* The rest of print_analysis / print_report: the filter by threshold and
\* the table.
AReport ==
    /\ a_pc = "report"
    /\ LET repeated == Repeated(a_counter, a_in.threshold)
       IN  /\ a_reports' = Append(a_reports, repeated)
           /\ a_tables' = Append(a_tables, PrintedRows(repeated))
    /\ a_run' = IF a_run < 3 THEN a_run + 1 ELSE a_run
    /\ a_pc' = IF a_run < 3 THEN "count" ELSE "done"
    /\ UNCHANGED <<a_in, a_counter>>
    /\ UNCHANGED <<ovars, svars, dvars, tvars, xvars, cvars, ivars, pvars>>

AnalyzeInit ==
    /\ AnalyzeInputs /\ FetchIdle /\ PipeIdle
    /\ MainInit /\ ScrapeIdle /\ DiscoverIdle /\ TranslateIdle /\ ExtractIdle /\ ConsentIdle

AnalyzeNext == ACount \/ AReport

AnalyzeSpec == AnalyzeInit /\ [][AnalyzeNext]_vars

(***************************************************************************)
(* One session from scrape to report: run_pipeline_on_browserstack         *)
(* (browserstack_runner.py), run_pipeline (browserstack_local.py) and      *)
(* run_pipeline (main.py)                                                  *)
(***************************************************************************)
PipeKinds == {"runner", "local", "class"}

\* Which analyzer a pipeline uses.
AnalyzerOf(kind) == IF kind = "class" THEN "class" ELSE "top"

RepeatThreshold == 2

\* What the translation of the titles does: every title translated, every
\* title returned as it was, or an exception out of the translator.
TranslationOutcomes == {"accepted", "original", "raises"}

\* The title of the article at url u, in English and as scraped.
EnglishText(u) == IF u % 2 = 1 THEN TextWarArt ELSE TextArtWar
SpanishText(u) == TextStops

RECURSIVE HeadersOf(_, _)
HeadersOf(arts, tr) ==
    IF arts = <<>> THEN <<>>
    ELSE <<IF tr = "accepted" THEN EnglishText(Head(arts).url)
           ELSE SpanishText(Head(arts).url)>>
             \o HeadersOf(Tail(arts), tr)

PipeInputs ==
    /\ p_pc = "scrape"
    /\ \E kind \in PipeKinds, urls \in UrlLists(MaxArticles),
          tr \in TranslationOutcomes :
       \E out \in [1..Len(urls) -> ArticleOutcomes] :
           p_in = [kind |-> kind, urls |-> urls, out |-> out, tr |-> tr]
    /\ p_articles = <<>>
    /\ p_headers = <<>>
    /\ p_report = NoReport

\* Where an exception raised inside the pipeline ends: in the runner's
\* `except Exception` (status failed), else out of run_pipeline.
PipeRaise(kind) == IF kind = "runner" THEN "failed" ELSE "raised"

\* Step 1: run_scraper(driver) / ElPaisScraper(driver).scrape(), and in
\* browserstack_local.py the `if not articles: ... return` after it.
PScrape ==
    /\ p_pc = "scrape"
    /\ LET r == RunScraper(p_in.urls, p_in.out)
       IN  /\ p_articles' = r.articles
           /\ p_pc' = IF r.raised THEN PipeRaise(p_in.kind)
                      ELSE IF p_in.kind = "local" /\ r.articles = <<>> THEN "aborted"
                      ELSE "translate"
    /\ UNCHANGED <<p_in, p_headers, p_report>>
    /\ UNCHANGED <<ovars, svars, dvars, tvars, xvars, cvars, ivars, avars>>

\* Step 2: the translation loop / translate_all over the titles.
PTranslate ==
    /\ p_pc = "translate"
    /\ IF p_articles # <<>> /\ p_in.tr = "raises"
       THEN p_pc' = PipeRaise(p_in.kind) /\ UNCHANGED p_headers
       ELSE p_pc' = "analyse" /\ p_headers' = HeadersOf(p_articles, p_in.tr)
    /\ UNCHANGED <<p_in, p_articles, p_report>>
    /\ UNCHANGED <<ovars, svars, dvars, tvars, xvars, cvars, ivars, avars>>

\* Step 3: find_repeated_words(translated_headers, threshold=2) /
\* print_analysis / WordAnalyzer().print_report; the runner then stores the
\* entry with status "passed".
PAnalyse ==
    /\ p_pc = "analyse"
    /\ p_report' = [made |-> TRUE,
                    items |-> Repeated(CountInto(AnalyzerOf(p_in.kind), p_headers,
                                                 NewCounter(<<>>)),
                                       RepeatThreshold)]
    /\ p_pc' = IF p_in.kind = "runner" THEN "passed" ELSE "complete"
    /\ UNCHANGED <<p_in, p_articles, p_headers>>
    /\ UNCHANGED <<ovars, svars, dvars, tvars, xvars, cvars, ivars, avars>>

PipeInit ==
    /\ PipeInputs /\ FetchIdle /\ AnalyzeIdle
    /\ MainInit /\ ScrapeIdle /\ DiscoverIdle /\ TranslateIdle /\ ExtractIdle /\ ConsentIdle

PipeNext == PScrape \/ PTranslate \/ PAnalyse

PipeSpec == PipeInit /\ [][PipeNext]_vars

(***************************************************************************)
(* Properties of the orchestrator (Spec, FairSpec)                         *)
(***************************************************************************)
FullReport == <<"listing", "analysis", "summary">>

Recorded(i) == i \in DOMAIN results

Passed(i) == Recorded(i) /\ results[i].status = "passed"

\* Thread i has yet to assign results[i] on the path it is on.
CanStillWrite(i) ==
    mpc # "exited" /\ tpc[i] \in {"create", "run", "storing", "except", "exc_storing"}

\* C1: when no join timed out, the final results hold, for every session
\* whose try block raised, a failed entry with no articles and no headers,
\* and for every other session a passed entry with the articles that session
\* scraped; the listing and the summary table show exactly these entries.
C1_FailureIsolation ==
    (mpc = "exited" /\ timedOut = {}) =>
        \A i \in Sessions :
            /\ Recorded(i)
            /\ i \in DOMAIN listing /\ listing[i] = results[i]
            /\ i \in DOMAIN summary /\ summary[i] = results[i].status
            /\ i \in raised =>
                 results[i] = [status |-> "failed", articles |-> <<>>, headers |-> <<>>]
            /\ i \notin raised =>
                 /\ results[i].status = "passed"
                 /\ results[i].articles = local[i].articles
                 /\ results[i].headers = local[i].headers

\* A run within budget in which one session failed and another passed with
\* an article.
C1_Witness ==
    /\ mpc = "exited" /\ timedOut = {}
    /\ \E i, j \in Sessions :
         /\ i \in raised /\ j \notin raised
         /\ results[i].status = "failed"
         /\ results[j].status = "passed" /\ results[j].articles # <<>>

\* C2: when the report has been produced every capability has an entry in
\* the summary table, and a session whose join timed out is shown as failed.
C2_TimeoutReportedFailed ==
    mpc = "exited" =>
        \A i \in Sessions :
            /\ i \in DOMAIN summary
            /\ i \in timedOut => summary[i] = "failed"

\* C3: a step that assigns results[i] is taken by the holder of the lock and
\* is the first assignment for i, and an entry present in results is never
\* changed or removed.
C3_SingleWrite ==
    [][\A i \in Sessions :
         /\ Recorded(i) => (i \in DOMAIN results' /\ results'[i] = results[i])
         /\ (writes'[i] # writes[i] \/ (~Recorded(i) /\ i \in DOMAIN results')) =>
              (lock = i /\ writes[i] = 0 /\ writes'[i] = 1)]_vars

\* Every thread has ended; one stored a passed entry, another a failed one.
C3_Witness ==
    /\ \A i \in Sessions : tpc[i] = "done" /\ writes[i] = 1
    /\ \E i, j \in Sessions :
         results[i].status = "passed" /\ results[j].status = "failed"

\* C4: whenever main() is about to read results (for the listing or for the
\* summary table) no thread can still write to it.
C4_NoReadWhileWriterLive ==
    mpc \in {"listing", "summary"} => \A i \in Sessions : ~CanStillWrite(i)

\* C5: a session whose join timed out appears neither in the listing nor in
\* the merged titles, nor as passed in the summary table.
C5_AbandonedDiscarded ==
    \A i \in timedOut :
        /\ mpc \in {"summary", "exited"} => i \notin DOMAIN listing
        /\ mpc = "exited" => ~(i \in DOMAIN summary /\ summary[i] = "passed")

\* The headers of the passed sessions shown in the listing, by ascending
\* session index from i on.
RECURSIVE PassedTitlesFrom(_)
PassedTitlesFrom(i) ==
    IF i > NumSessions THEN <<>>
    ELSE (IF i \in DOMAIN listing /\ listing[i].status = "passed"
          THEN listing[i].headers ELSE <<>>) \o PassedTitlesFrom(i + 1)

C7_ReportAlwaysEmitted == <>(mpc = "exited" /\ emitted = FullReport)

\* The report was printed although one session never got past its remote
\* calls and every other session failed.
C7_Witness ==
    /\ mpc = "exited" /\ emitted = FullReport
    /\ \E i \in Sessions : tpc[i] \in {"create", "run"}
    /\ \A i \in Sessions : ~Passed(i)
    /\ \E i \in Sessions : Recorded(i)

\* C8: once the process has ended, every session that opened a remote
\* driver has called driver.quit().
C8_DriverReleased ==
    mpc = "exited" =>
        \A i \in Sessions : driver[i] = "open" => "quit" \in Range(remote[i])

\* C9: the exit status is non-zero only if no session passed, and when a
\* session passed it is zero and the full report was printed.
C9_ExitStatus ==
    mpc = "exited" =>
        /\ exitStatus # 0 => \A i \in Sessions : ~Passed(i)
        /\ (\E i \in Sessions : Passed(i)) =>
             (exitStatus = 0 /\ emitted = FullReport)

\* A partial success: one session passed, another failed.
C9_Witness ==
    /\ mpc = "exited"
    /\ \E i, j \in DOMAIN summary : summary[i] = "passed" /\ summary[j] = "failed"

(***************************************************************************)
(* Properties of the per-article loop (ScrapeSpec)                         *)
(***************************************************************************)
RECURSIVE UrlsOf(_)
UrlsOf(arts) == IF arts = <<>> THEN <<>> ELSE <<Head(arts).url>> \o UrlsOf(Tail(arts))

\* The discovered urls from position k on whose extraction succeeds.
RECURSIVE OkUrlsFrom(_)
OkUrlsFrom(k) ==
    IF k > Len(sc_urls) THEN <<>>
    ELSE (IF sc_out[k] = "ok" THEN <<sc_urls[k]>> ELSE <<>>) \o OkUrlsFrom(k + 1)

\* C10: the scrape always returns; every discovered url was attempted, in
\* order, and the records are those of the urls whose extraction did not
\* fail.
C10_ArticleScopedFailure ==
    /\ sc_pc # "art_raised"
    /\ sc_pc = "returned" =>
         /\ sc_tried = sc_urls
         /\ UrlsOf(sc_articles) = OkUrlsFrom(1)

\* The position of url u in the discovered list (which has no duplicates).
PositionOf(u) == CHOOSE k \in 1..Len(sc_urls) : sc_urls[k] = u

\* C28: the urls of the records are discovered urls that were navigated to,
\* none twice, and they stand in the order of the discovered list.
C28_ArticleOrder ==
    LET got == UrlsOf(sc_articles)
    IN  /\ Range(got) \subseteq Range(sc_tried)
        /\ Range(sc_tried) \subseteq Range(sc_urls)
        /\ \A i, j \in 1..Len(got) :
               i < j => PositionOf(got[i]) < PositionOf(got[j])

\* Three urls discovered in an order that is not the order of their names;
\* the second is dropped, the first and the third are returned in that order.
C28_Witness ==
    /\ sc_pc = "returned"
    /\ sc_urls = <<3, 1, 2>>
    /\ UrlsOf(sc_articles) = <<3, 2>>

(***************************************************************************)
(* Properties of article-URL discovery (DiscoverSpec)                      *)
(***************************************************************************)
\* The position of the first "?" piece of href, or Len(href) + 1: the path
\* ends before it.
QueryStart(href) ==
    IF \E k \in 1..Len(href) : href[k] = "?u="
    THEN CHOOSE k \in 1..Len(href) :
             href[k] = "?u=" /\ \A l \in 1..(k - 1) : href[l] # "?u="
    ELSE Len(href) + 1

\* href is the address of a dated article of the opinion section of
\* elpais.com: host elpais.com, path under /opinion/, a YYYY-MM-DD segment in
\* the path.
DatedOpinionArticle(href) ==
    /\ Len(href) >= 5
    /\ SubSeq(href, 1, 5) = <<"https://", "elpais.com", "/", "opinion", "/">>
    /\ \E k \in 2..(QueryStart(href) - 2) :
         href[k] \in DateTokens /\ href[k - 1] = "/" /\ href[k + 1] = "/"

\* C11: every URL collected by article-URL discovery is on the target
\* domain, under the opinion section path and has a YYYY-MM-DD path segment;
\* the section root and undated index pages are never collected.
C11_UrlQualification ==
    \A k \in 1..Len(d_hrefs) :
        /\ DatedOpinionArticle(d_hrefs[k])
        /\ d_hrefs[k] \notin {HrefRoot, HrefIndex}

\* The hrefs in the order discovery scans them: the card selectors in their
\* order, then every link of the page.
RECURSIVE CardScanOrder(_, _)
CardScanOrder(sels, page) ==
    IF sels = <<>> THEN <<>>
    ELSE FindElements(page, Head(sels)) \o CardScanOrder(Tail(sels), page)

\* The distinct qualifying hrefs of hs, in order of first occurrence, after
\* those of acc.
RECURSIVE DistinctQualifying(_, _, _)
DistinctQualifying(impl, hs, acc) ==
    IF hs = <<>> THEN acc
    ELSE DistinctQualifying(impl, Tail(hs),
             IF IsArticleUrl(impl, Head(hs)) /\ \A k \in 1..Len(acc) : acc[k] # Head(hs)
             THEN Append(acc, Head(hs)) ELSE acc)

FirstN(s, n) == IF Len(s) <= n THEN s ELSE SubSeq(s, 1, n)

IsPrefix(s, t) == Len(s) <= Len(t) /\ s = SubSeq(t, 1, Len(s))

\* C12: the returned list has no duplicate and at most MAX_ARTICLES entries;
\* it is the first MAX_ARTICLES distinct qualifying hrefs in scan order, card
\* selectors first in their fixed order and then all links; all links are
\* scanned only when the card selectors gave fewer than MAX_ARTICLES.
C12_DiscoveryResult ==
    d_pc = "returned" =>
        LET cards == CardScanOrder(CardSelectors(d_impl), d_page)
            fromCards == DistinctQualifying(d_impl, cards, <<>>)
            all == cards \o FindElements(d_page, "a")
        IN  /\ \A k, l \in 1..Len(d_hrefs) : d_hrefs[k] = d_hrefs[l] => k = l
            /\ Len(d_hrefs) <= MaxArticles
            /\ d_hrefs = FirstN(DistinctQualifying(d_impl, all, <<>>), MaxArticles)
            /\ IsPrefix(d_scans, CardSelectors(d_impl) \o <<"a">>)
            /\ ("a" \in Range(d_scans)) <=> (Len(fromCards) < MaxArticles)

\* The card selectors gave one URL, which is not the first qualifying link
\* of the document; the fallback met it again and filled the list up to
\* MAX_ARTICLES, leaving a later qualifying link out.
C12_Witness ==
    /\ d_pc = "returned"
    /\ "a" \in Range(d_scans)
    /\ Len(d_hrefs) = MaxArticles
    /\ Len(DistinctQualifying(d_impl, CardScanOrder(CardSelectors(d_impl), d_page), <<>>)) = 1
    /\ Len(DistinctQualifying(d_impl, FindElements(d_page, "a"), <<>>)) > MaxArticles
    /\ d_hrefs[1] # DistinctQualifying(d_impl, FindElements(d_page, "a"), <<>>)[1]

(***************************************************************************)
(* Properties of the translator (TranslateSpec)                            *)
(***************************************************************************)
\* The call has ended, by a return or by an exception.
TranslateEnded == t_pc \in {"returned", "raised"}

\* The behaviour is a failure, or a reply that is empty or the sentinel.
Unacceptable(b) == b.kind # "text" \/ b.text = <<>> \/ UpperText(b.text) = Sentinel

\* The behaviour met by the k-th provider call made.
BehaviourOfCall(k) ==
    IF t_calls[k] = "google" THEN t_gresp
    ELSE t_resp[Cardinality({l \in 1..k : t_calls[l] = "mymemory"})]

\* C13: with a non-empty text and a provider that fails or replies
\* unacceptably on every call, translate makes exactly `retries` provider
\* calls and returns the input text.
C13_Exhaustion ==
    (/\ TranslateEnded
     /\ t_text # <<>>
     /\ \A k \in 1..Retries : Unacceptable(t_resp[k])
     /\ t_key => Unacceptable(t_gresp))
        => (t_pc = "returned" /\ t_ret = t_text /\ Len(t_calls) = Retries)

\* C14: translate of the empty text returns the empty text and makes no
\* provider call.
C14_EmptyInput ==
    (TranslateEnded /\ t_text = <<>>)
        => (t_pc = "returned" /\ t_ret = <<>> /\ t_calls = <<>>)

\* C15: no exception leaves translate, whatever the provider does.
C15_NeverRaises == t_pc # "raised"

\* C16: the value returned is the input text or a provider reply that is
\* non-empty and not the sentinel, and a reply that is non-empty and not the
\* sentinel is returned by the call that got it.
C16_Acceptance ==
    /\ t_pc = "returned" =>
         (t_ret = t_text \/ (t_ret # <<>> /\ UpperText(t_ret) # Sentinel))
    /\ \A k \in 1..Len(t_calls) :
         ~Unacceptable(BehaviourOfCall(k)) =>
             (k = Len(t_calls) /\ t_pc = "returned" /\ t_ret = BehaviourOfCall(k).text)

(***************************************************************************)
(* Properties of field extraction (ExtractSpec)                            *)
(***************************************************************************)
ExtractEnded == x_pc \in {"returned", "raised"}

\* The attempts of the title chain, in order.
TitleAttempts(impl) == HeadingSelectors(impl) \o <<"og:title", "title">>

\* What a title attempt yields on the page; the empty text when the element
\* or its value is missing.
TitleYield(page, a) ==
    IF a = "title" THEN Strip(page.title)
    ELSE IF a = "og:title"
    THEN (IF page.og.present /\ page.og.hasContent THEN Strip(page.og.content) ELSE <<>>)
    ELSE (IF page.h[a].present THEN Strip(page.h[a].text) ELSE <<>>)

\* C17: title extraction returns what the first attempt with a non-empty
\* yield gives (the document title, the last attempt, when none does),
\* having consulted the attempts before it in order and none after it.
C17_TitleChain ==
    (ExtractEnded /\ x_page.kind = "title") =>
        LET as == TitleAttempts(x_impl)
            yielding == {k \in 1..Len(as) : TitleYield(x_page, as[k]) # <<>>}
            first == IF yielding = {} THEN Len(as) ELSE Min(yielding)
        IN  /\ x_pc = "returned"
            /\ x_ret = TitleYield(x_page, as[first])
            /\ x_tried = SubSeq(as, 1, first)

ImageChain == <<"og:image", "figure img", "div.a_m img">>

\* C19: image-URL extraction returns the value of the first of the metadata
\* image, the figure image and the hero-image region that starts with http,
\* and None when none does.
C19_ImageChain ==
    (ExtractEnded /\ x_page.kind = "image") =>
        LET qualifying == {k \in 1..Len(ImageChain) :
                              /\ x_page.img[ImageChain[k]].present
                              /\ x_page.img[ImageChain[k]].hasAttr
                              /\ StartsWithHttp(x_page.img[ImageChain[k]].url)}
        IN  /\ x_pc = "returned"
            /\ IF qualifying = {} THEN x_ret = NoImage
               ELSE x_ret = x_page.img[ImageChain[Min(qualifying)]].url

(***************************************************************************)
(* Properties of consent dismissal (ConsentSpec)                           *)
(***************************************************************************)
\* The locators waited for, in the order of the waits.
RECURSIVE WaitedFor(_)
WaitedFor(log) ==
    IF log = <<>> THEN <<>>
    ELSE (IF Head(log).op = "wait" THEN <<Head(log).sel>> ELSE <<>>) \o WaitedFor(Tail(log))

\* The positions in the log of the clicks that succeeded.
Clicks == {k \in 1..Len(c_log) : c_log[k].op = "click" /\ c_log[k].ok}

\* C20: consent dismissal never raises; it waits for its locators in their
\* fixed order; at most one click succeeds, it is the last thing done and
\* the function has then returned; without a successful click it returns
\* only after every locator was tried.
C20_ConsentDismissal ==
    /\ c_pc # "raised"
    /\ IsPrefix(WaitedFor(c_log), ConsentSelectors(c_impl))
    /\ Cardinality(Clicks) <= 1
    /\ \A k \in Clicks : k = Len(c_log) /\ c_pc = "returned"
    /\ (c_pc = "returned" /\ Clicks = {}) =>
           WaitedFor(c_log) = ConsentSelectors(c_impl)

\* A click that failed on the first locator, a wait that timed out, then a
\* click that succeeded before the end of the list.
C20_Witness ==
    /\ c_pc = "returned"
    /\ Clicks # {}
    /\ Len(WaitedFor(c_log)) < Len(ConsentSelectors(c_impl))
    /\ \E k \in 1..Len(c_log) : c_log[k].op = "click" /\ ~c_log[k].ok
    /\ \E k \in 1..Len(c_log) : c_log[k].op = "wait" /\ ~c_log[k].ok

C22_FetchRetry ==
    (/\ f_pc = "done"
     /\ f_in.url
     /\ f_in.outcomes[1] # "ok" /\ f_in.outcomes[2] = "ok")
        => (f_ret = "path" /\ f_calls = 2)


(***************************************************************************)
(* Properties of the word-frequency analysis (AnalyzeSpec)                 *)
(***************************************************************************)
\* The headers passed to the r-th call.
ArgOf(r) == IF r <= 2 THEN a_in.headers ELSE a_in.perm

\* The surviving tokens of every text, text by text.
TokenLists(impl, headers) ==
    [i \in 1..Len(headers) |-> Tokenize(impl, headers[i])]

SurvivingTokens(toks) == UNION {Range(toks[i]) : i \in 1..Len(toks)}

\* How often the token w occurs in one list, and in all lists together.
OccursIn(tokens, w) == Cardinality({j \in 1..Len(tokens) : tokens[j] = w})

Occurrences(toks, w) ==
    Cardinality(UNION {{<<i, j>> : j \in {k \in 1..Len(toks[i]) : toks[i][k] = w}} :
                       i \in 1..Len(toks)})

\* C23: every report maps exactly the surviving tokens whose number of
\* occurrences over all the texts together is greater than the threshold,
\* each to that number; each word is one key.
C23_ThresholdedTotals ==
    \A r \in 1..Len(a_reports) :
        LET toks == TokenLists(a_in.impl, ArgOf(r))
            rep == a_reports[r]
        IN  /\ Words(rep) = {w \in SurvivingTokens(toks) :
                                Occurrences(toks, w) > a_in.threshold}
            /\ \A i \in 1..Len(rep) : rep[i].cnt = Occurrences(toks, rep[i].word)
            /\ \A i, j \in 1..Len(rep) : rep[i].word = rep[j].word => i = j

\* Threshold T >= 1: a word with T + 1 occurrences, at most one per text, is
\* reported with T + 1, and a word with exactly T occurrences is not.
C23_Witness ==
    /\ a_pc = "done"
    /\ a_in.threshold >= 1
    /\ LET toks == TokenLists(a_in.impl, a_in.headers)
       IN  \E w, v \in SurvivingTokens(toks) :
            /\ Occurrences(toks, w) = a_in.threshold + 1
            /\ \A i \in 1..Len(toks) : OccursIn(toks[i], w) <= 1
            /\ [word |-> w, cnt |-> a_in.threshold + 1] \in Range(a_reports[1])
            /\ Occurrences(toks, v) = a_in.threshold
            /\ v \notin Words(a_reports[1])

\* C24: the call on the reordered headers returns the same word-to-count
\* mapping as the call on the headers, and prints the same rows.
C24_Commutativity ==
    Len(a_reports) = 3 =>
        /\ Range(a_reports[3]) = Range(a_reports[1])
        /\ Len(a_reports[3]) = Len(a_reports[1])
        /\ a_tables[3] = a_tables[1]

\* The reordering changed the order in which the words were first counted.
C24_Witness ==
    /\ a_pc = "done"
    /\ a_in.perm # a_in.headers
    /\ a_reports[3] # a_reports[1]
    /\ Len(a_tables[3]) >= 2

\* Every token of the texts, lower-cased, is a stop-word or too short.
OnlyStopOrShort(impl, headers) ==
    \A i \in 1..Len(headers) : \A t \in Range(RawTokens(headers[i])) :
        t \in StopWords(impl) \/ Len(t) < MinWordLength

\* C25: no key of a report is a stop-word, is shorter than 3 characters or
\* has a character that is not a lower-case letter; texts of stop-words and
\* short tokens only give the empty report.
C25_Filtering ==
    \A r \in 1..Len(a_reports) :
        /\ \A i \in 1..Len(a_reports[r]) :
            LET w == a_reports[r][i].word
            IN  /\ w \notin StopWords(a_in.impl)
                /\ Len(w) >= 3
                /\ Range(w) \subseteq Range(LowerCase)
        /\ OnlyStopOrShort(a_in.impl, ArgOf(r)) => a_reports[r] = <<>>

\* A stop-word written in upper and lower case occurs more often than the
\* threshold and than every reported word, next to an upper-case word that
\* is reported in lower case.
C25_Witness ==
    /\ a_pc = "done"
    /\ a_in.headers = <<TextMixed, TextStops, TextWarArt>>
    /\ a_in.threshold = 1
    /\ Words(a_reports[1]) = {<<"w", "a", "r">>}

\* C26: the second call on the same headers returns and prints what the
\* first did: same words, same counts, same order.
C26_Idempotence ==
    Len(a_reports) >= 2 =>
        /\ a_reports[2] = a_reports[1]
        /\ a_tables[2] = a_tables[1]

C26_Witness ==
    /\ Len(a_reports) >= 2
    /\ Len(a_reports[1]) >= 2
    /\ a_reports[2] = a_reports[1]

\* C27: the printed rows descend by count and, at equal count, ascend by
\* word; the rows are the items of the report, each word in one row.
C27_DisplayOrdering ==
    \A r \in 1..Len(a_tables) :
        LET tb == a_tables[r]
            rep == a_reports[r]
        IN  /\ \A i \in 1..(Len(tb) - 1) :
                \/ tb[i].cnt > tb[i + 1].cnt
                \/ tb[i].cnt = tb[i + 1].cnt /\ LexLess(tb[i].word, tb[i + 1].word)
            /\ Range(tb) = Range(rep)
            /\ \A w \in Words(rep) :
                Cardinality({i \in 1..Len(tb) : tb[i].word = w}) = 1

\* Three rows, two of them with the same count, counted in another order
\* than they are printed.
C27_Witness ==
    /\ Len(a_tables) >= 1
    /\ Len(a_tables[1]) = 3
    /\ a_tables[1][1].cnt > a_tables[1][2].cnt
    /\ a_tables[1][2].cnt = a_tables[1][3].cnt
    /\ a_tables[1] # a_reports[1]


(***************************************************************************)
(* Properties of one session's pipeline (PipeSpec)                         *)
(***************************************************************************)
PipeEnded == p_pc \in {"passed", "complete", "aborted", "failed", "raised"}

\* C29: a pipeline whose discovery returned no url ends without an
\* exception (the runner records it as passed), with no articles and with an
\* empty word-frequency report produced.
C29_ZeroArticles ==
    (PipeEnded /\ p_in.urls = <<>>) =>
        /\ p_pc \notin {"failed", "raised"}
        /\ p_in.kind = "runner" => p_pc = "passed"
        /\ p_articles = <<>>
        /\ p_report = [made |-> TRUE, items |-> <<>>]


(***************************************************************************)
(* Agreement of the report's sections (Spec)                               *)
(***************************************************************************)
\* C30: once the report is printed, the sessions of the per-session listing
\* are the sessions of the summary table, each with the same status.
C30_SectionsAgree ==
    mpc = "exited" =>
        /\ DOMAIN listing = DOMAIN summary
        /\ \A i \in DOMAIN listing : listing[i].status = summary[i]


C32_DashboardMatchesRecord ==
    \A i \in Sessions :
        remote[i] # <<>> =>
            /\ driver[i] = "open"
            /\ Len(remote[i]) = 2
            /\ remote[i][2] = "quit"
            /\ remote[i][1] \in {"passed", "failed"}
            /\ i \in DOMAIN results
            /\ results[i].status = remote[i][1]

\* One session reported passed and one reported failed, each as stored.
C32_Witness ==
    \E i, j \in Sessions :
        /\ remote[i] = <<"passed", "quit">> /\ results[i].status = "passed"
        /\ remote[j] = <<"failed", "quit">> /\ results[j].status = "failed"


(***************************************************************************)
(* Agreement of the two analyzers (AnalyzeSpec)                            *)
(***************************************************************************)
\* The analyzer that did not produce the reports.
OtherAnalyzer == IF a_in.impl = "top" THEN "class" ELSE "top"

\* find_repeated_words / WordAnalyzer(threshold).analyze of analyzer impl.
ReportOf(impl, headers, threshold) ==
    Repeated(CountInto(impl, headers, NewCounter(<<>>)), threshold)

\* C33: every report has the words and counts that the other analyzer
\* returns for the same headers and threshold.
C33_AnalyzersAgree ==
    \A r \in 1..Len(a_reports) :
        Range(a_reports[r]) =
            Range(ReportOf(OtherAnalyzer, ArgOf(r), a_in.threshold))

====
